---- MODULE Spec2Model ----
(***************************************************************************)
(* Model of errbot/backends/base.py: the Stream transfer state machine     *)
(* (class Stream) and the reconnection loop of the backend runtime         *)
(* (class Backend: serve_forever, _delay_reconnect,                        *)
(* reset_reconnection_count).                                              *)
(***************************************************************************)
EXTENDS Integers, Sequences, FiniteSets, TLC

VARIABLES
    streams,              \* the Stream objects created so far, by index
    call,                 \* the last Stream method call and how it ended
    pc,                   \* position of the thread that runs serve_forever
    reconnection_count,   \* Backend._reconnection_count
    reconnection_delay,   \* Backend._reconnection_delay
    sleep_arg,            \* argument of the last time.sleep() call
    log,                  \* last record written by serve_forever
    shutdown_calls,       \* number of invocations of self.shutdown()
    interrupted,          \* a KeyboardInterrupt was delivered to the loop
    jitter,               \* the last value drawn from random.uniform
    zero_jitter,          \* every jitter drawn since construction/reset was 0
    last_op,              \* the last Backend step taken
    attempts_logged,      \* "Reconnecting" records logged since construction
                          \* or the last reset_reconnection_count
    sleeps_completed,     \* time.sleep() calls of _delay_reconnect that
                          \* returned since construction or the last
                          \* reset_reconnection_count
    sleeps_since_serve_once, \* time.sleep() calls of _delay_reconnect that
                          \* returned since serve_once last returned or raised
    messages,             \* the Message objects created so far, by index
    dicts,                \* the mappings held as extras: the keys of each
    presences,            \* the Presence objects created so far, by index
    presence_call         \* the last call of the Presence constructor

streamVars == <<streams, call>>

backendVars == <<pc, reconnection_count, reconnection_delay, sleep_arg, log,
                 shutdown_calls, interrupted, jitter, zero_jitter, last_op,
                 attempts_logged, sleeps_completed, sleeps_since_serve_once>>

messageVars == <<messages, dicts>>

presenceVars == <<presences, presence_call>>

vars == <<streams, call, pc, reconnection_count, reconnection_delay,
          sleep_arg, log, shutdown_calls, interrupted, jitter, zero_jitter,
          last_op, attempts_logged, sleeps_completed, sleeps_since_serve_once,
          messages, dicts, presences, presence_call>>

(* ---------------------------- bounds ---------------------------------- *)

MaxStreams == 2

MaxLen == 1

MaxCount == 13

MaxMessages == 2

MaxPresences == 2

(* ------------------ Stream: constants and inputs ---------------------- *)

STREAM_WAITING_TO_START == "pending"

STREAM_TRANSFER_IN_PROGRESS == "in progress"

STREAM_SUCCESSFULLY_TRANSFERED == "success"

STREAM_PAUSED == "paused"

STREAM_ERROR == "error"

STREAM_REJECTED == "rejected"

DEFAULT_REASON == "unknown"

None == "None"

\* marks an argument left out of a call, so that its default applies
Omitted == "<omitted>"

Names == {None, "report.pdf"}

\* size=None, the size is not known
NoSize == -1

Sizes == {NoSize, 100}

\* the transfers requested: a file with its name and size, or one of which
\* neither is known
Requests == {r \in Names \X Sizes : (r[1] = None) <=> (r[2] = NoSize)}

Reasons == {DEFAULT_REASON, "disk full"}

Lengths == 0..MaxLen

\* a call without an argument, or with a text argument only, has n = NoArg
NoArg == -1

NoCall ==
    [op |-> "none", id |-> 0, arg |-> None, n |-> NoArg, before |-> None,
     result |-> "none"]

\* the status of Stream s when a method is called on it
StatusBefore(s) == IF s \in DOMAIN streams THEN streams[s].status ELSE None

Returned(op, s, arg, n) ==
    [op |-> op, id |-> s, arg |-> arg, n |-> n, before |-> StatusBefore(s),
     result |-> "return"]

Raised(op, s) ==
    [op |-> op, id |-> s, arg |-> None, n |-> NoArg, before |-> StatusBefore(s),
     result |-> "ValueError"]

\* Stream.__init__: the fields of a freshly constructed Stream
NewStream(identifier, name, size, stream_type) ==
    [identifier |-> identifier, name |-> name, size |-> size,
     stream_type |-> stream_type,
     status |-> STREAM_WAITING_TO_START,
     reason |-> DEFAULT_REASON,
     transfered |-> 0]

\* a Stream is constructed when a transfer is requested; the further Stream
\* objects of the model come from clone()
StreamInit(name, size) ==
    /\ Len(streams) = 0
    /\ streams' = Append(streams, NewStream("peer", name, size, None))
    /\ call' = Returned("__init__", Len(streams) + 1, None, NoArg)
    /\ UNCHANGED <<backendVars, messageVars, presenceVars>>

\* accept() without its guard
accept_unguarded(s) ==
    /\ s \in DOMAIN streams
    /\ streams' = [streams EXCEPT ![s].status = STREAM_TRANSFER_IN_PROGRESS]
    /\ call' = Returned("accept", s, None, NoArg)
    /\ UNCHANGED <<backendVars, messageVars, presenceVars>>

accept(s) ==
    /\ s \in DOMAIN streams
    /\ IF streams[s].status # STREAM_WAITING_TO_START
       THEN /\ call' = Raised("accept", s)
            /\ UNCHANGED streams
       ELSE /\ streams' = [streams EXCEPT ![s].status = STREAM_TRANSFER_IN_PROGRESS]
            /\ call' = Returned("accept", s, None, NoArg)
    /\ UNCHANGED <<backendVars, messageVars, presenceVars>>

\* reject() without its guard
reject_unguarded(s) ==
    /\ s \in DOMAIN streams
    /\ streams' = [streams EXCEPT ![s].status = STREAM_REJECTED]
    /\ call' = Returned("reject", s, None, NoArg)
    /\ UNCHANGED <<backendVars, messageVars, presenceVars>>

\* reject() that assigns the wrong status constant
reject_pauses(s) ==
    /\ s \in DOMAIN streams
    /\ IF streams[s].status # STREAM_WAITING_TO_START
       THEN /\ call' = Raised("reject", s)
            /\ UNCHANGED streams
       ELSE /\ streams' = [streams EXCEPT ![s].status = STREAM_PAUSED]
            /\ call' = Returned("reject", s, None, NoArg)
    /\ UNCHANGED <<backendVars, messageVars, presenceVars>>

\* reject() that tests for the wrong status
reject_in_progress(s) ==
    /\ s \in DOMAIN streams
    /\ IF streams[s].status # STREAM_TRANSFER_IN_PROGRESS
       THEN /\ call' = Raised("reject", s)
            /\ UNCHANGED streams
       ELSE /\ streams' = [streams EXCEPT ![s].status = STREAM_REJECTED]
            /\ call' = Returned("reject", s, None, NoArg)
    /\ UNCHANGED <<backendVars, messageVars, presenceVars>>

reject(s) ==
    /\ s \in DOMAIN streams
    /\ IF streams[s].status # STREAM_WAITING_TO_START
       THEN /\ call' = Raised("reject", s)
            /\ UNCHANGED streams
       ELSE /\ streams' = [streams EXCEPT ![s].status = STREAM_REJECTED]
            /\ call' = Returned("reject", s, None, NoArg)
    /\ UNCHANGED <<backendVars, messageVars, presenceVars>>

\* the value bound to the parameter of error(self, reason=DEFAULT_REASON)
ReasonParam(arg) == IF arg = Omitted THEN DEFAULT_REASON ELSE arg

\* error() that drops its argument
error_drops_reason(s, arg) ==
    /\ s \in DOMAIN streams
    /\ streams' = [streams EXCEPT ![s].status = STREAM_ERROR]
    /\ call' = Returned("error", s, arg, NoArg)
    /\ UNCHANGED <<backendVars, messageVars, presenceVars>>

error(s, arg) ==
    /\ s \in DOMAIN streams
    /\ streams' = [streams EXCEPT ![s].status = STREAM_ERROR,
                                  ![s].reason = ReasonParam(arg)]
    /\ call' = Returned("error", s, arg, NoArg)
    /\ UNCHANGED <<backendVars, messageVars, presenceVars>>

\* success() that also completes a transfer nobody accepted
success_from_pending(s) ==
    /\ s \in DOMAIN streams
    /\ IF streams[s].status \notin {STREAM_TRANSFER_IN_PROGRESS, STREAM_WAITING_TO_START}
       THEN /\ call' = Raised("success", s)
            /\ UNCHANGED streams
       ELSE /\ streams' = [streams EXCEPT ![s].status = STREAM_SUCCESSFULLY_TRANSFERED]
            /\ call' = Returned("success", s, None, NoArg)
    /\ UNCHANGED <<backendVars, messageVars, presenceVars>>

success(s) ==
    /\ s \in DOMAIN streams
    /\ IF streams[s].status # STREAM_TRANSFER_IN_PROGRESS
       THEN /\ call' = Raised("success", s)
            /\ UNCHANGED streams
       ELSE /\ streams' = [streams EXCEPT ![s].status = STREAM_SUCCESSFULLY_TRANSFERED]
            /\ call' = Returned("success", s, None, NoArg)
    /\ UNCHANGED <<backendVars, messageVars, presenceVars>>

\* clone() that copies the transfer state along with the description
clone_copies_state(s) ==
    /\ s \in DOMAIN streams
    /\ Len(streams) < MaxStreams
    /\ streams' = Append(streams, streams[s])
    /\ call' = Returned("clone", s, None, Len(streams) + 1)
    /\ UNCHANGED <<backendVars, messageVars, presenceVars>>

clone(s) ==
    /\ s \in DOMAIN streams
    /\ Len(streams) < MaxStreams
    /\ streams' = Append(streams, NewStream(streams[s].identifier, streams[s].name,
                                            streams[s].size, streams[s].stream_type))
    /\ call' = Returned("clone", s, None, Len(streams) + 1)
    /\ UNCHANGED <<backendVars, messageVars, presenceVars>>

\* ack_data() that only counts while the transfer is in progress
ack_data_in_progress_only(s, length) ==
    /\ s \in DOMAIN streams
    /\ IF streams[s].status = STREAM_TRANSFER_IN_PROGRESS
       THEN streams' = [streams EXCEPT ![s].transfered = length]
       ELSE UNCHANGED streams
    /\ call' = Returned("ack_data", s, None, length)
    /\ UNCHANGED <<backendVars, messageVars, presenceVars>>

ack_data(s, length) ==
    /\ s \in DOMAIN streams
    /\ streams' = [streams EXCEPT ![s].transfered = length]
    /\ call' = Returned("ack_data", s, None, length)
    /\ UNCHANGED <<backendVars, messageVars, presenceVars>>

(* ------------------------- Identifier classes ------------------------- *)

\* an instance of a backend's subclass of Person, of Room, of RoomOccupant
APerson == "a person"

ARoom == "a room"

AnOccupant == "a room occupant"

Recipients == {None, APerson, ARoom, AnOccupant}

\* the classes of base.py an object is an instance of
ClassesOf(x) ==
    CASE x = APerson -> {"Identifier", "Person"}
      [] x = ARoom -> {"Identifier", "Room"}
      [] x = AnOccupant -> {"Identifier", "RoomOccupant"}
      [] OTHER -> {}

isinstance(x, class) == class \in ClassesOf(x)

(* ------------------------------ Message ------------------------------- *)

Bodies == {"", "hello"}

Senders == {None, APerson}

Keys == {"key"}

\* the extras argument of the constructor: left out, an empty mapping, or a
\* mapping with an entry
ExtrasArgs == {Omitted, "empty", "filled"}

\* no mapping: extras=None
NoDict == 0

\* the mappings after the caller has made the one it passes as extras
DictsWithArg(arg) ==
    CASE arg = "empty" -> Append(dicts, {})
      [] arg = "filled" -> Append(dicts, Keys)
      [] OTHER -> dicts

ArgRef(arg) == IF arg = Omitted THEN NoDict ELSE Len(dicts) + 1

\* bool(extras): None and the empty mapping are falsy
Truthy(heap, ref) == ref # NoDict /\ heap[ref] # {}

\* self._extras = extras or dict(): the mappings afterwards
DictsAfterOr(heap, ref) == IF Truthy(heap, ref) THEN heap ELSE Append(heap, {})

\* self._extras = extras or dict(): the mapping the Message holds
ExtrasOrDict(heap, ref) == IF Truthy(heap, ref) THEN ref ELSE Len(heap) + 1

\* Message.__init__; the bodies of the model are str, which compat_str
\* returns as they are
NewMessage(body, frm, to, delayed, extras) ==
    [body |-> body, frm |-> frm, to |-> to, delayed |-> delayed,
     extras |-> extras]

\* a Message is constructed; the further Message objects of the model come
\* from clone()
MessageInit(body, frm, to, delayed, arg) ==
    /\ Len(messages) = 0
    /\ messages' = Append(messages,
                          NewMessage(body, frm, to, delayed,
                                     ExtrasOrDict(DictsWithArg(arg), ArgRef(arg))))
    /\ dicts' = DictsAfterOr(DictsWithArg(arg), ArgRef(arg))
    /\ UNCHANGED <<streamVars, backendVars, presenceVars>>

message_clone(m) ==
    /\ m \in DOMAIN messages
    /\ Len(messages) < MaxMessages
    /\ messages' = Append(messages,
                          NewMessage(messages[m].body, messages[m].frm,
                                     messages[m].to, messages[m].delayed,
                                     ExtrasOrDict(dicts, messages[m].extras)))
    /\ dicts' = DictsAfterOr(dicts, messages[m].extras)
    /\ UNCHANGED <<streamVars, backendVars, presenceVars>>

set_to(m, to) ==
    /\ m \in DOMAIN messages
    /\ messages' = [messages EXCEPT ![m].to = to]
    /\ UNCHANGED <<dicts, streamVars, backendVars, presenceVars>>

set_frm(m, from_) ==
    /\ m \in DOMAIN messages
    /\ messages' = [messages EXCEPT ![m].frm = from_]
    /\ UNCHANGED <<dicts, streamVars, backendVars, presenceVars>>

set_body(m, body) ==
    /\ m \in DOMAIN messages
    /\ messages' = [messages EXCEPT ![m].body = body]
    /\ UNCHANGED <<dicts, streamVars, backendVars, presenceVars>>

set_delayed(m, delayed) ==
    /\ m \in DOMAIN messages
    /\ messages' = [messages EXCEPT ![m].delayed = delayed]
    /\ UNCHANGED <<dicts, streamVars, backendVars, presenceVars>>

\* msg.extras[key] = value, through the mapping the extras property returns
extras_setitem(m, key) ==
    /\ m \in DOMAIN messages
    /\ dicts' = [dicts EXCEPT ![messages[m].extras] = @ \cup {key}]
    /\ UNCHANGED <<messages, streamVars, backendVars, presenceVars>>

\* is_direct derived from is_group, as the deprecated type property does
is_direct_unless_group(msg) == ~isinstance(msg.to, "Room")

is_direct(msg) == isinstance(msg.to, "Person")

is_group(msg) == isinstance(msg.to, "Room")

(* ------------------------------ Presence ------------------------------ *)

ONLINE == "online"

OFFLINE == "offline"

AWAY == "away"

DND == "dnd"

PresenceIdentifiers == {None, APerson, AnOccupant}

Statuses == {None, ONLINE, OFFLINE, AWAY, DND}

StatusMessages == {None, "", "BRB"}

NoPresenceCall ==
    [identifier |-> None, status |-> None, message |-> None, result |-> "none"]

PresenceCall(identifier, status, message, result) ==
    [identifier |-> identifier, status |-> status, message |-> message,
     result |-> result]

\* the constructor testing for falsy arguments instead of None
PresenceInit_falsy(identifier, status, message) ==
    /\ Len(presences) < MaxPresences
    /\ IF identifier = None
       THEN /\ presence_call' = PresenceCall(identifier, status, message, "ValueError")
            /\ UNCHANGED presences
       ELSE IF status \in {None, ""} /\ message \in {None, ""}
       THEN /\ presence_call' = PresenceCall(identifier, status, message, "ValueError")
            /\ UNCHANGED presences
       ELSE /\ presences' = Append(presences, [identifier |-> identifier,
                                               status |-> status,
                                               message |-> message])
            /\ presence_call' = PresenceCall(identifier, status, message, "return")
    /\ UNCHANGED <<streamVars, backendVars, messageVars>>

PresenceInit(identifier, status, message) ==
    /\ Len(presences) < MaxPresences
    /\ IF identifier = None
       THEN /\ presence_call' = PresenceCall(identifier, status, message, "ValueError")
            /\ UNCHANGED presences
       ELSE IF status = None /\ message = None
       THEN /\ presence_call' = PresenceCall(identifier, status, message, "ValueError")
            /\ UNCHANGED presences
       ELSE /\ presences' = Append(presences, [identifier |-> identifier,
                                               status |-> status,
                                               message |-> message])
            /\ presence_call' = PresenceCall(identifier, status, message, "return")
    /\ UNCHANGED <<streamVars, backendVars, messageVars>>

(* --------------- Backend: reconnection delay arithmetic --------------- *)
(* A delay is the exact number whole + frac / 4^exp, 0 <= frac < 4^exp,    *)
(* in lowest terms; the products by the multiplier 1.75 = 7/4 and the      *)
(* jitters of the model are all of this form.                              *)

reconnection_max_delay == 600

reconnection_multiplier_num == 7

reconnection_multiplier_den == 4

reconnection_jitter_min == 0

reconnection_jitter_max == 3

\* the values of random.uniform(0, 3) the model draws
Jitters == {reconnection_jitter_min, reconnection_jitter_min + 1,
            reconnection_jitter_max}

RECURSIVE Pow(_, _)
Pow(b, e) == IF e = 0 THEN 1 ELSE b * Pow(b, e - 1)

Num(i) == [whole |-> i, frac |-> 0, exp |-> 0]

RECURSIVE Normal(_)
Normal(d) ==
    IF d.exp > 0 /\ d.frac % reconnection_multiplier_den = 0
    THEN Normal([whole |-> d.whole,
                 frac |-> d.frac \div reconnection_multiplier_den,
                 exp |-> d.exp - 1])
    ELSE d

\* d * self._reconnection_multiplier
TimesMultiplier(d) ==
    LET t == reconnection_multiplier_num * d.whole
        n == (t % reconnection_multiplier_den) * Pow(reconnection_multiplier_den, d.exp)
             + reconnection_multiplier_num * d.frac
        D == Pow(reconnection_multiplier_den, d.exp + 1)
    IN  Normal([whole |-> (t \div reconnection_multiplier_den) + (n \div D),
                frac |-> n % D,
                exp |-> d.exp + 1])

\* d > i, for an integer i
Greater(d, i) == d.whole > i \/ (d.whole = i /\ d.frac > 0)

\* d + j, for an integer j
Plus(d, j) == [d EXCEPT !.whole = @ + j]

\* the jitter added before the ceiling is applied
NextDelay_cap_last(d, j) ==
    LET m == Plus(TimesMultiplier(d), j)
    IN  IF Greater(m, reconnection_max_delay)
        THEN Num(reconnection_max_delay) ELSE m

\* the new value of _reconnection_delay computed by _delay_reconnect
NextDelay(d, j) ==
    LET m == TimesMultiplier(d)
        capped == IF Greater(m, reconnection_max_delay)
                  THEN Num(reconnection_max_delay) ELSE m
    IN  Plus(capped, j)

(* ------------- Backend: serve_forever and the calls it makes ---------- *)

NoLog == [msg |-> "none", delay |-> Num(0), count |-> 0]

\* the record written after the delay has been updated
Reconnecting_after_update ==
    [msg |-> "Reconnecting", delay |-> TimesMultiplier(reconnection_delay),
     count |-> reconnection_count]

Reconnecting == [msg |-> "Reconnecting", delay |-> reconnection_delay,
                 count |-> reconnection_count]

TriggerShutdown == [msg |-> "Trigger shutdown", delay |-> Num(0), count |-> 0]

\* serve_forever is called: the loop is entered and serve_once is invoked
serve_forever ==
    /\ pc = "new"
    /\ pc' = "serve_once"
    /\ last_op' = "serve_forever"
    /\ UNCHANGED <<reconnection_count, reconnection_delay, sleep_arg, log,
                   shutdown_calls, interrupted, jitter, zero_jitter>>
    /\ UNCHANGED attempts_logged
    /\ UNCHANGED <<sleeps_completed, sleeps_since_serve_once>>
    /\ UNCHANGED <<streamVars, messageVars, presenceVars>>

\* the test of the return value of serve_once inverted
serve_once_truthy_retries ==
    /\ pc = "serve_once"
    /\ log' = Reconnecting
    /\ sleep_arg' = reconnection_delay
    /\ pc' = "sleep"
    /\ last_op' = "serve_once_truthy"
    /\ UNCHANGED <<reconnection_count, reconnection_delay, shutdown_calls,
                   interrupted, jitter, zero_jitter>>
    /\ attempts_logged' = attempts_logged + 1
    /\ sleeps_since_serve_once' = 0
    /\ UNCHANGED sleeps_completed
    /\ UNCHANGED <<streamVars, messageVars, presenceVars>>

\* serve_once returns a truthy value: break, then self.shutdown() is called
serve_once_truthy ==
    /\ pc = "serve_once"
    /\ pc' = "shutdown"
    /\ log' = TriggerShutdown
    /\ shutdown_calls' = shutdown_calls + 1
    /\ last_op' = "serve_once_truthy"
    /\ UNCHANGED <<reconnection_count, reconnection_delay, sleep_arg,
                   interrupted, jitter, zero_jitter>>
    /\ UNCHANGED attempts_logged
    /\ sleeps_since_serve_once' = 0
    /\ UNCHANGED sleeps_completed
    /\ UNCHANGED <<streamVars, messageVars, presenceVars>>

\* an exception of serve_once ends the loop instead of being caught
serve_once_fails_stops(how) ==
    /\ pc = "serve_once"
    /\ IF how = "serve_once_raises"
       THEN /\ pc' = "shutdown"
            /\ log' = TriggerShutdown
            /\ shutdown_calls' = shutdown_calls + 1
            /\ UNCHANGED sleep_arg
       ELSE /\ pc' = "sleep"
            /\ log' = Reconnecting
            /\ sleep_arg' = reconnection_delay
            /\ UNCHANGED shutdown_calls
    /\ last_op' = how
    /\ UNCHANGED <<reconnection_count, reconnection_delay, interrupted, jitter,
                   zero_jitter>>
    /\ attempts_logged' = IF how = "serve_once_raises" THEN attempts_logged
                                                        ELSE attempts_logged + 1
    /\ sleeps_since_serve_once' = 0
    /\ UNCHANGED sleeps_completed
    /\ UNCHANGED <<streamVars, messageVars, presenceVars>>

\* serve_once returns a falsy value, or raises anything but KeyboardInterrupt:
\* the reconnection is logged and _delay_reconnect starts to sleep
serve_once_fails(how) ==
    /\ pc = "serve_once"
    /\ log' = Reconnecting
    /\ sleep_arg' = reconnection_delay
    /\ pc' = "sleep"
    /\ last_op' = how
    /\ UNCHANGED <<reconnection_count, reconnection_delay, shutdown_calls,
                   interrupted, jitter, zero_jitter>>
    /\ attempts_logged' = attempts_logged + 1
    /\ sleeps_since_serve_once' = 0
    /\ UNCHANGED sleeps_completed
    /\ UNCHANGED <<streamVars, messageVars, presenceVars>>

\* KeyboardInterrupt caught by the bare except like any other exception
serve_once_interrupt_retries ==
    /\ pc = "serve_once"
    /\ interrupted' = TRUE
    /\ log' = Reconnecting
    /\ sleep_arg' = reconnection_delay
    /\ pc' = "sleep"
    /\ last_op' = "serve_once_interrupt"
    /\ UNCHANGED <<reconnection_count, reconnection_delay, shutdown_calls,
                   jitter, zero_jitter>>
    /\ attempts_logged' = attempts_logged + 1
    /\ sleeps_since_serve_once' = 0
    /\ UNCHANGED sleeps_completed
    /\ UNCHANGED <<streamVars, messageVars, presenceVars>>

\* KeyboardInterrupt during serve_once: break, then self.shutdown() is called
serve_once_interrupt ==
    /\ pc = "serve_once"
    /\ interrupted' = TRUE
    /\ pc' = "shutdown"
    /\ log' = TriggerShutdown
    /\ shutdown_calls' = shutdown_calls + 1
    /\ last_op' = "serve_once_interrupt"
    /\ UNCHANGED <<reconnection_count, reconnection_delay, sleep_arg, jitter,
                   zero_jitter>>
    /\ UNCHANGED attempts_logged
    /\ sleeps_since_serve_once' = 0
    /\ UNCHANGED sleeps_completed
    /\ UNCHANGED <<streamVars, messageVars, presenceVars>>

\* time.sleep returns: the rest of _delay_reconnect, the increment of the
\* count, and the next iteration's call of serve_once
delay_reconnect(j) ==
    /\ pc = "sleep"
    /\ reconnection_count < MaxCount
    /\ jitter' = j
    /\ reconnection_delay' = NextDelay(reconnection_delay, j)
    /\ reconnection_count' = reconnection_count + 1
    /\ zero_jitter' = (zero_jitter /\ j = 0)
    /\ pc' = "serve_once"
    /\ last_op' = "delay_reconnect"
    /\ UNCHANGED <<sleep_arg, log, shutdown_calls, interrupted>>
    /\ UNCHANGED attempts_logged
    /\ sleeps_completed' = sleeps_completed + 1
    /\ sleeps_since_serve_once' = sleeps_since_serve_once + 1
    /\ UNCHANGED <<streamVars, messageVars, presenceVars>>

\* KeyboardInterrupt during time.sleep leaves serve_forever at once
delay_reconnect_interrupt_returns ==
    /\ pc = "sleep"
    /\ interrupted' = TRUE
    /\ pc' = "done"
    /\ last_op' = "delay_reconnect_interrupt"
    /\ UNCHANGED <<reconnection_count, reconnection_delay, sleep_arg, log,
                   shutdown_calls, jitter, zero_jitter>>
    /\ UNCHANGED attempts_logged
    /\ UNCHANGED <<sleeps_completed, sleeps_since_serve_once>>
    /\ UNCHANGED <<streamVars, messageVars, presenceVars>>

\* the count incremented although time.sleep was interrupted
delay_reconnect_interrupt_counts ==
    /\ pc = "sleep"
    /\ interrupted' = TRUE
    /\ reconnection_count' = reconnection_count + 1
    /\ pc' = "shutdown"
    /\ log' = TriggerShutdown
    /\ shutdown_calls' = shutdown_calls + 1
    /\ last_op' = "delay_reconnect_interrupt"
    /\ UNCHANGED <<reconnection_delay, sleep_arg, jitter, zero_jitter>>
    /\ UNCHANGED attempts_logged
    /\ UNCHANGED <<sleeps_completed, sleeps_since_serve_once>>
    /\ UNCHANGED <<streamVars, messageVars, presenceVars>>

\* KeyboardInterrupt during time.sleep goes on to the next iteration
delay_reconnect_interrupt_retries ==
    /\ pc = "sleep"
    /\ interrupted' = TRUE
    /\ pc' = "serve_once"
    /\ last_op' = "delay_reconnect_interrupt"
    /\ UNCHANGED <<reconnection_count, reconnection_delay, sleep_arg, log,
                   shutdown_calls, jitter, zero_jitter>>
    /\ UNCHANGED attempts_logged
    /\ UNCHANGED <<sleeps_completed, sleeps_since_serve_once>>
    /\ UNCHANGED <<streamVars, messageVars, presenceVars>>

\* KeyboardInterrupt during time.sleep: break, then self.shutdown() is called
delay_reconnect_interrupt ==
    /\ pc = "sleep"
    /\ interrupted' = TRUE
    /\ pc' = "shutdown"
    /\ log' = TriggerShutdown
    /\ shutdown_calls' = shutdown_calls + 1
    /\ last_op' = "delay_reconnect_interrupt"
    /\ UNCHANGED <<reconnection_count, reconnection_delay, sleep_arg, jitter,
                   zero_jitter>>
    /\ UNCHANGED attempts_logged
    /\ UNCHANGED <<sleeps_completed, sleeps_since_serve_once>>
    /\ UNCHANGED <<streamVars, messageVars, presenceVars>>

\* self.shutdown() returns and serve_forever with it
shutdown_returns ==
    /\ pc = "shutdown"
    /\ pc' = "done"
    /\ last_op' = "shutdown_returns"
    /\ UNCHANGED <<reconnection_count, reconnection_delay, sleep_arg, log,
                   shutdown_calls, interrupted, jitter, zero_jitter>>
    /\ UNCHANGED attempts_logged
    /\ UNCHANGED <<sleeps_completed, sleeps_since_serve_once>>
    /\ UNCHANGED <<streamVars, messageVars, presenceVars>>

\* the reset of the delay forgotten
reset_reconnection_count_only ==
    /\ reconnection_count' = 0
    /\ zero_jitter' = TRUE
    /\ last_op' = "reset_reconnection_count"
    /\ UNCHANGED <<pc, reconnection_delay, sleep_arg, log, shutdown_calls,
                   interrupted, jitter>>
    /\ attempts_logged' = 0
    /\ sleeps_completed' = 0
    /\ UNCHANGED sleeps_since_serve_once
    /\ UNCHANGED <<streamVars, messageVars, presenceVars>>

\* the delay reset to 0 instead of 1
reset_reconnection_count_zero ==
    /\ reconnection_count' = 0
    /\ reconnection_delay' = Num(0)
    /\ zero_jitter' = TRUE
    /\ last_op' = "reset_reconnection_count"
    /\ UNCHANGED <<pc, sleep_arg, log, shutdown_calls, interrupted, jitter>>
    /\ attempts_logged' = 0
    /\ sleeps_completed' = 0
    /\ UNCHANGED sleeps_since_serve_once
    /\ UNCHANGED <<streamVars, messageVars, presenceVars>>

reset_reconnection_count ==
    /\ reconnection_count' = 0
    /\ reconnection_delay' = Num(1)
    /\ zero_jitter' = TRUE
    /\ last_op' = "reset_reconnection_count"
    /\ UNCHANGED <<pc, sleep_arg, log, shutdown_calls, interrupted, jitter>>
    /\ attempts_logged' = 0
    /\ sleeps_completed' = 0
    /\ UNCHANGED sleeps_since_serve_once
    /\ UNCHANGED <<streamVars, messageVars, presenceVars>>

(* --------------------------- specifications --------------------------- *)

Init ==
    /\ streams = <<>>
    /\ call = NoCall
    /\ pc = "new"
    /\ reconnection_count = 0
    /\ reconnection_delay = Num(1)
    /\ sleep_arg = Num(0)
    /\ log = NoLog
    /\ shutdown_calls = 0
    /\ interrupted = FALSE
    /\ jitter = 0
    /\ zero_jitter = TRUE
    /\ last_op = "__init__"
    /\ attempts_logged = 0
    /\ sleeps_completed = 0
    /\ sleeps_since_serve_once = 0
    /\ messages = <<>>
    /\ dicts = <<>>
    /\ presences = <<>>
    /\ presence_call = NoPresenceCall

NextStream ==
    \/ \E r \in Requests : StreamInit(r[1], r[2])
    \/ \E s \in 1..MaxStreams : accept(s)
    \/ \E s \in 1..MaxStreams : reject(s)
    \/ \E s \in 1..MaxStreams, arg \in Reasons \cup {Omitted} : error(s, arg)
    \/ \E s \in 1..MaxStreams : success(s)
    \/ \E s \in 1..MaxStreams : clone(s)
    \/ \E s \in 1..MaxStreams, length \in Lengths : ack_data(s, length)

NextBackend ==
    \/ serve_forever
    \/ serve_once_truthy
    \/ \E how \in {"serve_once_falsy", "serve_once_raises"} : serve_once_fails(how)
    \/ serve_once_interrupt
    \/ \E j \in Jitters : delay_reconnect(j)
    \/ delay_reconnect_interrupt
    \/ shutdown_returns
    \/ reset_reconnection_count

SpecStream == Init /\ [][NextStream]_vars

NextMessage ==
    \/ \E body \in Bodies, frm \in Senders, to \in Recipients,
          delayed \in BOOLEAN, arg \in ExtrasArgs :
            MessageInit(body, frm, to, delayed, arg)
    \/ \E m \in 1..MaxMessages : message_clone(m)
    \/ \E m \in 1..MaxMessages, to \in Recipients : set_to(m, to)
    \/ \E m \in 1..MaxMessages, from_ \in Senders : set_frm(m, from_)
    \/ \E m \in 1..MaxMessages, body \in Bodies : set_body(m, body)
    \/ \E m \in 1..MaxMessages, delayed \in BOOLEAN : set_delayed(m, delayed)
    \/ \E m \in 1..MaxMessages, key \in Keys : extras_setitem(m, key)

SpecMessage == Init /\ [][NextMessage]_vars

NextPresence ==
    \E identifier \in PresenceIdentifiers, status \in Statuses,
       message \in StatusMessages : PresenceInit(identifier, status, message)

SpecPresence == Init /\ [][NextPresence]_vars

SpecBackend == Init /\ [][NextBackend]_vars

\* serve_forever with an adapter that never calls reset_reconnection_count
NextNoReset ==
    \/ serve_forever
    \/ serve_once_truthy
    \/ \E how \in {"serve_once_falsy", "serve_once_raises"} : serve_once_fails(how)
    \/ serve_once_interrupt
    \/ \E j \in Jitters : delay_reconnect(j)
    \/ delay_reconnect_interrupt
    \/ shutdown_returns

SpecNoReset == Init /\ [][NextNoReset]_vars

(* ------------------------ Stream: properties -------------------------- *)

\* the Stream a step has called a method on
Callee == call'.id

\* the step leaves the status, the reason and the transferred count of the
\* called Stream as they were
CalleeUntouched ==
    /\ streams'[Callee].status = streams[Callee].status
    /\ streams'[Callee].reason = streams[Callee].reason
    /\ streams'[Callee].transfered = streams[Callee].transfered

\* C1: accept() returns iff the status is pending and then makes it
\* in progress; otherwise it raises ValueError and leaves the status, the
\* reason and the transferred count unchanged.
AcceptOnlyFromPending ==
    [][call'.op = "accept" =>
         /\ call'.result = "return" <=> streams[Callee].status = "pending"
         /\ call'.result = "return" => streams'[Callee].status = "in progress"
         /\ call'.result # "return" =>
               call'.result = "ValueError" /\ CalleeUntouched]_vars

AcceptRefusedAfterError ==
    /\ call.op = "accept"
    /\ call.result = "ValueError"
    /\ call.before = "error"
    /\ streams[call.id].status = "error"
    /\ streams[call.id].reason = "disk full"
    /\ streams[call.id].transfered = MaxLen

\* C2: error(reason) returns from every status, never raises, makes the
\* status error and records the reason given, "unknown" when it is omitted.
ErrorAlwaysSucceeds ==
    [][call'.op = "error" =>
         /\ call'.result = "return"
         /\ streams'[Callee].status = "error"
         /\ streams'[Callee].reason =
               IF call'.arg = Omitted THEN "unknown" ELSE call'.arg]_vars

ErrorAfterSuccessWithReason ==
    /\ call.op = "error"
    /\ call.before = "success"
    /\ call.arg = "disk full"
    /\ streams[call.id].status = "error"
    /\ streams[call.id].reason = "disk full"

\* C3: success() returns iff the status is in progress and then makes it
\* success; from every other status it raises ValueError and leaves the
\* status, the reason and the transferred count unchanged; an accept() on a
\* Stream whose status is success raises.
SuccessOnlyFromInProgress ==
    [][/\ call'.op = "success" =>
            /\ call'.result = "return" <=> streams[Callee].status = "in progress"
            /\ call'.result = "return" => streams'[Callee].status = "success"
            /\ call'.result # "return" =>
                  call'.result = "ValueError" /\ CalleeUntouched
       /\ (call'.op = "accept" /\ streams[Callee].status = "success") =>
            call'.result = "ValueError" /\ CalleeUntouched]_vars

SuccessRefusedWhilePending ==
    /\ call.op = "success"
    /\ call.result = "ValueError"
    /\ call.before = "pending"
    /\ streams[call.id].status = "pending"
    /\ streams[call.id].transfered > 0

\* C4: reject() returns iff the status is pending and then makes it
\* rejected; from every other status it raises ValueError and leaves the
\* status, the reason and the transferred count unchanged.
RejectOnlyFromPending ==
    [][call'.op = "reject" =>
         /\ call'.result = "return" <=> streams[Callee].status = "pending"
         /\ call'.result = "return" => streams'[Callee].status = "rejected"
         /\ call'.result # "return" =>
               call'.result = "ValueError" /\ CalleeUntouched]_vars

RejectRefusedInProgress ==
    /\ call.op = "reject"
    /\ call.result = "ValueError"
    /\ call.before = "in progress"
    /\ streams[call.id].status = "in progress"
    /\ streams[call.id].transfered > 0

\* C12: ack_data(length) returns in every status, sets the transferred
\* count to length and leaves the status and the reason alone; accept,
\* reject, success and error leave the transferred count alone.
AckDataOnlySetsTransfered ==
    [][/\ call'.op = "ack_data" =>
            /\ call'.result = "return"
            /\ streams'[Callee].transfered = call'.n
            /\ streams'[Callee].status = streams[Callee].status
            /\ streams'[Callee].reason = streams[Callee].reason
       /\ call'.op \in {"accept", "reject", "success", "error"} =>
            streams'[Callee].transfered = streams[Callee].transfered]_vars

AckDataWhileInProgress ==
    /\ call.op = "ack_data"
    /\ call.before = "in progress"
    /\ call.n = 1
    /\ streams[call.id].transfered = 1
    /\ streams[call.id].status = "in progress"

\* the Stream that a clone() step has returned
Cloned == call'.n

\* C13: clone() of a Stream in any status returns a new Stream with the
\* same identifier, name, size and stream_type, pending, with nothing
\* transferred and the reason "unknown", and leaves the original as it was;
\* a method called on one Stream changes no other Stream.
CloneIsFreshAndIndependent ==
    [][/\ call'.op = "clone" =>
            /\ call'.result = "return"
            /\ Cloned \notin DOMAIN streams /\ Cloned \in DOMAIN streams'
            /\ streams'[Cloned].identifier = streams[Callee].identifier
            /\ streams'[Cloned].name = streams[Callee].name
            /\ streams'[Cloned].size = streams[Callee].size
            /\ streams'[Cloned].stream_type = streams[Callee].stream_type
            /\ streams'[Cloned].status = "pending"
            /\ streams'[Cloned].transfered = 0
            /\ streams'[Cloned].reason = "unknown"
            /\ \A t \in DOMAIN streams : streams'[t] = streams[t]
       /\ call'.op \in {"accept", "reject", "success", "error", "ack_data"} =>
            /\ DOMAIN streams' = DOMAIN streams
            /\ \A t \in DOMAIN streams : t # Callee => streams'[t] = streams[t]]_vars

CloneOfFailedTransfer ==
    /\ call.op = "clone"
    /\ call.before = "error"
    /\ streams[call.id].status = "error"
    /\ streams[call.id].reason = "disk full"
    /\ streams[call.id].transfered = 1
    /\ streams[call.id].name = "report.pdf"
    /\ streams[call.id].size = 100
    /\ streams[call.n].status = "pending"
    /\ streams[call.n].name = "report.pdf"
    /\ streams[call.n].size = 100

\* C17: the transferred count of a Stream never decreases.
TransferedNeverDecreases ==
    [][\A s \in DOMAIN streams :
         streams'[s].transfered >= streams[s].transfered]_vars

\* the status of the called Stream changes from a to b
Edge(a, b) == streams[Callee].status = a /\ streams'[Callee].status = b

StatusChanges ==
    /\ call'.op \in {"accept", "reject", "success", "error"}
    /\ streams'[Callee].status # streams[Callee].status

StartsPending ==
    /\ call'.op = "__init__" => streams'[Callee].status = "pending"
    /\ call'.op = "clone" => streams'[Cloned].status = "pending"

\* C18 as claimed: every change of status is one of five edges, those into
\* error only from pending and in progress.
OnlyTheFiveEdges ==
    [][/\ StatusChanges =>
            \/ Edge("pending", "in progress")
            \/ Edge("in progress", "success")
            \/ Edge("in progress", "error")
            \/ Edge("pending", "rejected")
            \/ Edge("pending", "error")
       /\ StartsPending]_vars

\* C18 as amended: every change of status is pending -> in progress,
\* in progress -> success, pending -> rejected, or an edge into error from
\* any of pending, in progress, success, rejected; a new Stream is pending.
EdgesWithErrorFromAnywhere ==
    [][/\ StatusChanges =>
            \/ Edge("pending", "in progress")
            \/ Edge("in progress", "success")
            \/ Edge("pending", "rejected")
            \/ /\ call'.op = "error"
               /\ streams[Callee].status \in
                     {"pending", "in progress", "success", "rejected"}
               /\ streams'[Callee].status = "error"
       /\ StartsPending]_vars

ErrorAfterRejection ==
    /\ call.op = "error"
    /\ call.before = "rejected"
    /\ streams[call.id].status = "error"

\* C19: the status of every Stream is one of pending, in progress, success,
\* rejected, error; it is never paused.
NeverPaused ==
    \A s \in DOMAIN streams :
        /\ streams[s].status # "paused"
        /\ streams[s].status \in
              {"pending", "in progress", "success", "rejected", "error"}

AllOtherStatusesSeen ==
    /\ Len(streams) = 2
    /\ streams[1].status = "rejected"
    /\ streams[2].status = "success"
    /\ call.op = "success"

(* ------------------------ Backend: properties ------------------------- *)

LoopLeft == pc \in {"shutdown", "done"}

\* min(d * 1.75, 600)
CappedProduct(d) ==
    IF Greater(TimesMultiplier(d), 600) THEN Num(600) ELSE TimesMultiplier(d)

\* C5: a falsy return or an exception (other than the interrupt) of
\* serve_once is not propagated and does not end the loop: the reconnection
\* is logged with the current delay and count and a sleep of the current
\* delay starts; when the sleep completes the delay is updated, the count is
\* incremented and serve_once is invoked again; only an interrupt ends the
\* sleep otherwise.
FailureBacksOffAndRetries ==
    [][/\ last_op' \in {"serve_once_falsy", "serve_once_raises"} =>
            /\ pc = "serve_once" /\ pc' = "sleep"
            /\ log' = [msg |-> "Reconnecting", delay |-> reconnection_delay,
                       count |-> reconnection_count]
            /\ sleep_arg' = reconnection_delay
            /\ shutdown_calls' = shutdown_calls
            /\ reconnection_delay' = reconnection_delay
            /\ reconnection_count' = reconnection_count
       /\ (pc = "sleep" /\ pc' # "sleep") =>
            \/ /\ pc' = "serve_once"
               /\ reconnection_delay' = Plus(CappedProduct(reconnection_delay), jitter')
               /\ reconnection_count' = reconnection_count + 1
               /\ sleep_arg' = sleep_arg
            \/ interrupted' /\ ~interrupted]_vars

RetriedAfterException ==
    /\ last_op = "serve_once_raises"
    /\ pc = "sleep"
    /\ reconnection_count = 2
    /\ log.msg = "Reconnecting" /\ log.count = 2
    /\ sleep_arg = reconnection_delay
    /\ shutdown_calls = 0

\* C6: once serve_forever has left its loop, by a truthy return of
\* serve_once or by an interrupt during serve_once or during the sleep,
\* shutdown() has been invoked exactly once; before that it has not been
\* invoked.
ShutdownExactlyOnce ==
    /\ LoopLeft => shutdown_calls = 1
    /\ ~LoopLeft => shutdown_calls = 0

ShutdownAfterInterruptedSleep ==
    /\ pc = "done"
    /\ interrupted
    /\ sleep_arg = reconnection_delay
    /\ reconnection_count >= 1
    /\ shutdown_calls = 1

\* C7: an interrupt during serve_once or during the sleep leads straight to
\* shutdown(): the step that takes it leaves the loop without touching the
\* delay, the count or the sleep, and after it serve_forever does nothing but
\* return from shutdown().
InterruptStopsAtOnce ==
    [][/\ (interrupted' /\ ~interrupted) =>
            /\ pc \in {"serve_once", "sleep"} /\ pc' = "shutdown"
            /\ shutdown_calls' = shutdown_calls + 1
            /\ reconnection_delay' = reconnection_delay
            /\ reconnection_count' = reconnection_count
            /\ sleep_arg' = sleep_arg
       /\ interrupted =>
            /\ interrupted'
            /\ pc' \notin {"serve_once", "sleep"}
            /\ last_op' \in {"shutdown_returns", "reset_reconnection_count"}
            /\ sleep_arg' = sleep_arg /\ log' = log
            /\ shutdown_calls' = shutdown_calls]_vars

InterruptedDuringServeOnce ==
    /\ interrupted
    /\ last_op = "serve_once_interrupt"
    /\ pc = "shutdown"
    /\ reconnection_count >= 1

\* C8: a truthy return of serve_once leaves the loop and calls shutdown()
\* with no sleep, no further serve_once, and the delay and the count
\* unchanged, also by what serve_forever does afterwards.
TruthyReturnShutsDown ==
    [][/\ last_op' = "serve_once_truthy" =>
            /\ pc = "serve_once" /\ pc' = "shutdown"
            /\ shutdown_calls' = shutdown_calls + 1
            /\ sleep_arg' = sleep_arg
            /\ reconnection_delay' = reconnection_delay
            /\ reconnection_count' = reconnection_count
       /\ (LoopLeft /\ last_op' # "reset_reconnection_count") =>
            /\ pc' = "done"
            /\ sleep_arg' = sleep_arg
            /\ reconnection_delay' = reconnection_delay
            /\ reconnection_count' = reconnection_count]_vars

ShutdownRequestedAfterRetries ==
    /\ last_op = "serve_once_truthy"
    /\ pc = "shutdown"
    /\ ~interrupted
    /\ reconnection_count = 2
    /\ shutdown_calls = 1

RECURSIVE Power(_)
\* 1.75^n
Power(n) == IF n = 0 THEN Num(1) ELSE TimesMultiplier(Power(n - 1))

\* min(1.75^n, 600)
CappedPower(n) == IF Greater(Power(n), 600) THEN Num(600) ELSE Power(n)

\* C9: the delay is 1 after construction; a completed backoff replaces it by
\* min(delay * 1.75, 600) + j for the jitter j drawn, 0 <= j <= 3; and while
\* all jitters were 0, after n backoffs (since construction or the last
\* reset) it is min(1.75^n, 600): 1.75, 3.0625, 5.359375, ... and 600 from
\* n = 12 on (1.75^11 < 600 < 1.75^12).
BackoffSequence ==
    /\ [](last_op = "__init__" => reconnection_delay = Num(1))
    /\ [][last_op' = "delay_reconnect" =>
            /\ jitter' >= 0 /\ jitter' <= 3
            /\ reconnection_delay' =
                  Plus(CappedProduct(reconnection_delay), jitter')]_vars
    /\ [](zero_jitter =>
            /\ reconnection_delay = CappedPower(reconnection_count)
            /\ reconnection_count = 1 =>
                  reconnection_delay = [whole |-> 1, frac |-> 3, exp |-> 1]
            /\ reconnection_count = 2 =>
                  reconnection_delay = [whole |-> 3, frac |-> 1, exp |-> 2]
            /\ reconnection_count = 3 =>
                  reconnection_delay = [whole |-> 5, frac |-> 23, exp |-> 3]
            /\ reconnection_count >= 12 => reconnection_delay = Num(600))

ClampedWithoutJitter ==
    /\ zero_jitter
    /\ last_op = "delay_reconnect"
    /\ reconnection_count = 13
    /\ reconnection_delay = Num(600)

\* C10: reset_reconnection_count() sets the delay to 1 and the count to 0
\* wherever serve_forever is; no other step resets them: the count does not
\* decrease and, once a backoff has completed, the delay is not 1 again.
OnlyResetResets ==
    [][/\ last_op' = "reset_reconnection_count" =>
            reconnection_delay' = Num(1) /\ reconnection_count' = 0
       /\ last_op' # "reset_reconnection_count" =>
            /\ reconnection_count' >= reconnection_count
            /\ reconnection_count >= 1 => Greater(reconnection_delay', 1)]_vars

ResetAfterBackoffs ==
    /\ last_op = "reset_reconnection_count"
    /\ pc = "sleep"
    /\ log.msg = "Reconnecting" /\ log.count = 3
    /\ Greater(sleep_arg, 1)
    /\ reconnection_count = 0
    /\ reconnection_delay = Num(1)

\* a < b, for two delays
Less(a, b) ==
    LET e == IF a.exp > b.exp THEN a.exp ELSE b.exp
    IN  \/ a.whole < b.whole
        \/ /\ a.whole = b.whole
           /\ a.frac * Pow(4, e - a.exp) < b.frac * Pow(4, e - b.exp)

\* the i-th "Reconnecting" record of a run reports the delay
\* min(1.75^(i - 1 + shift), 600) while all jitters were 0, and a longer
\* delay than the record before it as long as that one was below 600; a
\* truthy return of serve_once after k failures finds k records logged, and
\* shutdown() is called once.
LoggedAttempts(shift) ==
    /\ last_op' \in {"serve_once_falsy", "serve_once_raises"} =>
         /\ attempts_logged' = attempts_logged + 1
         /\ log'.msg = "Reconnecting"
         /\ zero_jitter => log'.delay = CappedPower(attempts_logged + shift)
         /\ (attempts_logged >= 1 /\ log.delay.whole < 600) =>
               Less(log.delay, log'.delay)
    /\ last_op' = "serve_once_truthy" =>
         /\ attempts_logged' = attempts_logged
         /\ attempts_logged = reconnection_count
         /\ shutdown_calls = 0 /\ shutdown_calls' = 1

\* C11 as claimed: after k failures and a truthy return, k attempts were
\* logged with the delays 1.75^1 .. 1.75^k, and shutdown() is called once.
LoggedDelaysFromFirstPower == [][LoggedAttempts(1)]_vars

\* C11 as amended: after k failures and a truthy return, with no reset,
\* k attempts were logged with the delays min(1.75^(i-1), 600), i = 1..k
\* (1, 1.75, 3.0625 for k = 3), increasing below 600, and shutdown() is
\* called once; 1.75^k is the delay held after the k-th backoff.
LoggedDelaysFromOne ==
    /\ [][LoggedAttempts(0)]_vars
    /\ [](zero_jitter => reconnection_delay = CappedPower(reconnection_count))
    /\ [](LoopLeft => shutdown_calls = 1)

ThreeFailuresThenShutdown ==
    /\ last_op = "serve_once_truthy"
    /\ pc = "shutdown"
    /\ zero_jitter
    /\ attempts_logged = 3
    /\ reconnection_count = 3
    /\ sleep_arg = [whole |-> 3, frac |-> 1, exp |-> 2]
    /\ reconnection_delay = [whole |-> 5, frac |-> 23, exp |-> 3]
    /\ shutdown_calls = 1

\* C20: the delay is never below 1 and never above 600 + 3.
DelayWithinBounds ==
    /\ reconnection_delay.whole >= 1
    /\ ~Greater(reconnection_delay, 603)

DelayAtUpperBound ==
    /\ reconnection_delay = Num(603)
    /\ jitter = 3
    /\ last_op = "delay_reconnect"

(* ------------------- Message and Presence: properties ----------------- *)

\* C14: is_direct holds iff the recipient is a Person, is_group iff it is
\* a Room; they never hold together, and neither holds without a recipient.
DirectXorGroupByRecipient ==
    \A m \in DOMAIN messages :
        /\ is_direct(messages[m]) <=> messages[m].to = "a person"
        /\ is_group(messages[m]) <=> messages[m].to = "a room"
        /\ ~(is_direct(messages[m]) /\ is_group(messages[m]))
        /\ messages[m].to = "None" =>
              ~is_direct(messages[m]) /\ ~is_group(messages[m])

RecipientsReassigned ==
    /\ Len(messages) = 2
    /\ messages[1].to = "a room" /\ is_group(messages[1])
    /\ messages[2].to = "a room occupant" /\ ~is_direct(messages[2])

\* C15: clone() returns a new Message with the body, frm, to and delayed of
\* the Message it is called on and with the very same extras mapping, also
\* when that mapping is empty; an assignment to a field of one Message
\* changes no other Message.
CloneSharesExtras ==
    [][/\ Len(messages') = Len(messages) + 1 /\ Len(messages) >= 1 =>
            \E m \in DOMAIN messages :
                /\ messages'[Len(messages')].body = messages[m].body
                /\ messages'[Len(messages')].frm = messages[m].frm
                /\ messages'[Len(messages')].to = messages[m].to
                /\ messages'[Len(messages')].delayed = messages[m].delayed
                /\ messages'[Len(messages')].extras = messages[m].extras
                /\ messages'[m] = messages[m]
       /\ Len(messages') = Len(messages) =>
            \A a, b \in DOMAIN messages :
                (a # b /\ messages'[a] # messages[a]) => messages'[b] = messages[b]]_vars

\* C16: the Presence constructor raises ValueError when the identifier is
\* None or when status and message are both None, and only then; otherwise
\* the new Presence reports the status and the message given.
PresenceNeedsStatusOrMessage ==
    [][/\ presence_call'.result = "ValueError" <=>
            \/ presence_call'.identifier = "None"
            \/ presence_call'.status = "None" /\ presence_call'.message = "None"
       /\ presence_call'.result = "ValueError" => presences' = presences
       /\ presence_call'.result # "ValueError" =>
            /\ presence_call'.result = "return"
            /\ Len(presences') = Len(presences) + 1
            /\ SubSeq(presences', 1, Len(presences)) = presences
            /\ presences'[Len(presences')].status = presence_call'.status
            /\ presences'[Len(presences')].message = presence_call'.message
            /\ presences'[Len(presences')].identifier = presence_call'.identifier]_vars

PresenceWithEmptyMessageOnly ==
    /\ presence_call.result = "return"
    /\ presence_call.status = "None"
    /\ presence_call.message = ""
    /\ presences[Len(presences)].status = "None"
    /\ presences[Len(presences)].message = ""

(* ------------------- Backend: counts of sleeps ------------------------ *)

\* what a step may do to the reconnection count
CountStep ==
    /\ reconnection_count' # reconnection_count =>
            \/ /\ last_op' = "delay_reconnect"
               /\ pc = "sleep"
               /\ reconnection_count' = reconnection_count + 1
               /\ sleeps_completed' = sleeps_completed + 1
            \/ /\ last_op' = "reset_reconnection_count"
               /\ reconnection_count' = 0
    /\ (pc = "sleep" /\ pc' = "serve_once") =>
            reconnection_count' = reconnection_count + 1
    /\ (pc = "sleep" /\ last_op' = "delay_reconnect_interrupt") =>
            /\ reconnection_count' = reconnection_count
            /\ reconnection_delay' = reconnection_delay
            /\ sleeps_completed' = sleeps_completed

\* C21: the reconnection count always equals the number of backoff sleeps
\* completed since construction or the last reset_reconnection_count; it
\* changes only by +1 when a sleep completes or to 0 at a reset, and an
\* interrupted sleep leaves the count and the delay as they were.
CountIsCompletedSleeps ==
    /\ [](reconnection_count = sleeps_completed)
    /\ [][CountStep]_vars

SleepInterruptedAfterTwoBackoffs ==
    /\ last_op = "delay_reconnect_interrupt"
    /\ interrupted
    /\ attempts_logged = 3
    /\ sleeps_completed = 2
    /\ reconnection_count = 2

\* serve_once is invoked by the step
Invoked == pc # "serve_once" /\ pc' = "serve_once"

\* an invocation is the first of the run, or follows one completed sleep
InvokedInTurn ==
    Invoked =>
        /\ shutdown_calls = 0 /\ shutdown_calls' = 0
        /\ \/ /\ pc = "new"
              /\ last_op' = "serve_forever"
              /\ sleeps_since_serve_once' = 0
           \/ /\ pc = "sleep"
              /\ last_op' = "delay_reconnect"
              /\ sleeps_since_serve_once' = 1

\* C22: within one run of serve_forever, serve_once is invoked only when no
\* invocation is in progress; every invocation but the first follows exactly
\* one completed backoff sleep since the previous invocation returned or
\* raised; and serve_once is never invoked once shutdown() has been called.
ServeOnceBetweenSleeps ==
    /\ [](shutdown_calls > 0 => pc \in {"shutdown", "done"})
    /\ [](pc = "sleep" => sleeps_since_serve_once = 0)
    /\ [][InvokedInTurn]_vars

ReinvokedAfterOneSleep ==
    /\ pc = "serve_once"
    /\ last_op = "delay_reconnect"
    /\ sleeps_since_serve_once = 1
    /\ reconnection_count = 3

====
